---- MODULE Spec2Model ----
(***************************************************************************)
(* Verification model of the Go study repository: the callback examples    *)
(* (Retry, Debounce, fetchData, createCounter) and the slice examples.     *)
(* Every example is an independent program, so each has its own variables, *)
(* its own actions and its own specification; the variables of the other   *)
(* examples stay at their initial values.                                  *)
(***************************************************************************)
EXTENDS Integers, Sequences, FiniteSets, TLC

VARIABLES
    \* Retry (callbacks document, "Retry Mechanism with Callbacks")
    rPc,          \* position in Retry: idle, for, fn, retry, sleep, inc, fail, done
    maxAttempts,  \* parameter maxAttempts
    hasOnRetry,   \* onRetry != nil
    attempt,      \* loop variable attempt
    err,          \* local variable err
    rRet,         \* value returned by Retry
    rLog,         \* the calls Retry has made to fn and onRetry, in order
    \* Debounce (callbacks document, "Debouncing/Throttling")
    dNow,         \* the clock, in ticks of 100 ms
    dTimer,       \* the closure's captured variable timer: 0 is nil, else a timer
    dTimers,      \* every *time.Timer made by time.AfterFunc, by creation order
    dRuns,        \* the executions of fn, in order
    \* fetchData (callbacks document, "Async-Style Callbacks")
    fPc,          \* position in fetchData: idle, sleep, branch, ret
    fUrl,         \* parameter url of the running call
    fNow,         \* the clock, in seconds
    fCalls,       \* the calls of fetchData made so far: url and time
    fLog,         \* callbacks delivered and returns, in order
    \* slice programs (slice/main.go and its earlier version)
    sProg,        \* the program that runs: none, alias, make, nilappend
    sPc,          \* the source line of the next statement (L14, ...), or start, end, panic
    sHeap,        \* the backing arrays allocated so far
    sEnv,         \* the slice variables x, y, s, a and the parameter p
    sTrace,       \* the operands the statements executed so far were given
    sOut,         \* what the program's fmt.Println calls printed
    \* createCounter (callbacks document, "Counter with Closure")
    cCount,       \* the captured variable count of each closure created
    cStart,       \* the argument start each closure was created with
    cRets,         \* the values each closure has returned, in order
    \* pointer and struct programs (pointer/readme.md, pointer/main.go, struct notes)
    mProg,        \* the program that runs: none, basic, byvalue, byptr, structs
    mPc,          \* the next statement of that program
    mMem,         \* the memory cells of the variables, by address
    mEnv,         \* the address of each variable in scope, 0 when not in scope
    mTrace,        \* the operands the statements executed so far were given
    \* program start-up: package variables, init, main (pointer/main.go 54-80)
    bPc,          \* what the runtime does next: load, init, main, println, exit
    bA,           \* const a
    bP,           \* var p
    bOut,          \* the lines printed so far
    \* middleware pattern (part_005 590-628)
    hChain,       \* the middlewares wrapped around baseHandler, outermost first
    hInput,       \* the argument of the call handler(input), as a list of string parts
    hDepth,       \* the wrapper whose closure runs: 1 is the outermost, Len(hChain) + 1 is baseHandler
    hPhase,       \* idle, down (calling inwards), up (returning), done
    hLog,         \* the events of the call, in order
    hRet,          \* the value being returned
    \* function values and multiple return values (part_005 113-134, 633-648)
    qPc,          \* idle, composed (compose has returned h), divide (divide is called), done
    qF,           \* f of compose(f, g)
    qG,           \* g of compose(f, g)
    qX,           \* the argument of h(x)
    qY,           \* the value h(x) returned
    qA,           \* a of divide(a, b)
    qB,           \* b of divide(a, b)
    qResult,      \* the float64 divide returned, as a fraction in lowest terms
    qErr,          \* the error divide returned, "" for nil
    \* validation framework (part_005 1273-1386)
    vPc,          \* build (rules are being added), loop (Validate runs), done
    vRules,       \* v.rules
    vInput,       \* input of Validate, as a list of characters
    vI,           \* the position of Validate's range loop in v.rules
    vSeen,        \* the positions of the rules Validate has called, in order
    vErrors,      \* errors
    vValid        \* the bool Validate returned

retryVars == <<rPc, maxAttempts, hasOnRetry, attempt, err, rRet, rLog>>
debounceVars == <<dNow, dTimer, dTimers, dRuns>>

fetchVars == <<fPc, fUrl, fNow, fCalls, fLog>>

sliceVars == <<sProg, sPc, sHeap, sEnv, sTrace, sOut>>

counterVars == <<cCount, cStart, cRets>>

memVars == <<mProg, mPc, mMem, mEnv, mTrace>>

bootVars == <<bPc, bA, bP, bOut>>

mwVars == <<hChain, hInput, hDepth, hPhase, hLog, hRet>>

fnVars == <<qPc, qF, qG, qX, qY, qA, qB, qResult, qErr>>

valVars == <<vPc, vRules, vInput, vI, vSeen, vErrors, vValid>>

vars == <<retryVars, debounceVars, fetchVars, sliceVars, counterVars, memVars, bootVars, mwVars, fnVars, valVars>>

notRetry == <<debounceVars, fetchVars, sliceVars, counterVars, memVars, bootVars, mwVars, fnVars, valVars>>
notDebounce == <<retryVars, fetchVars, sliceVars, counterVars, memVars, bootVars, mwVars, fnVars, valVars>>
notFetch == <<retryVars, debounceVars, sliceVars, counterVars, memVars, bootVars, mwVars, fnVars, valVars>>
notSlice == <<retryVars, debounceVars, fetchVars, counterVars, memVars, bootVars, mwVars, fnVars, valVars>>
notCounter == <<retryVars, debounceVars, fetchVars, sliceVars, memVars, bootVars, mwVars, fnVars, valVars>>
notMem == <<retryVars, debounceVars, fetchVars, sliceVars, counterVars, bootVars, mwVars, fnVars, valVars>>
notBoot == <<retryVars, debounceVars, fetchVars, sliceVars, counterVars, memVars, mwVars, fnVars, valVars>>
notMw == <<retryVars, debounceVars, fetchVars, sliceVars, counterVars, memVars, bootVars, fnVars, valVars>>
notFn == <<retryVars, debounceVars, fetchVars, sliceVars, counterVars, memVars, bootVars, mwVars, valVars>>
notVal == <<retryVars, debounceVars, fetchVars, sliceVars, counterVars, memVars, bootVars, mwVars, fnVars>>

(***************************************************************************)
(* Retry                                                                   *)
(***************************************************************************)

\* Largest attempt budget a caller passes (main passes 5).
MaxAttemptsBound == 5

\* error values: nil, or the error allocated by the id-th call of fn
NilErr == [kind |-> "nil", id |-> 0]
NewErr(k) == [kind |-> "error", id |-> k]

\* Retry's results: not returned yet, nil, or
\* fmt.Errorf("failed after %d attempts: %w", maxAttempts, err)
NoRet == [kind |-> "none", attempts |-> 0, cause |-> NilErr]
NilRet == [kind |-> "nil", attempts |-> 0, cause |-> NilErr]
WrapErr(n, e) == [kind |-> "wrapped", attempts |-> n, cause |-> e]

FnCalls == SelectSeq(rLog, LAMBDA e : e.ev = "fn")
OnRetryCalls == SelectSeq(rLog, LAMBDA e : e.ev = "onRetry")

InitRetry ==
    /\ rPc = "idle"
    /\ maxAttempts = 0
    /\ hasOnRetry = FALSE
    /\ attempt = 0
    /\ err = NilErr
    /\ rRet = NoRet
    /\ rLog = <<>>

\* Retry(fn, m, delay, onRetry) is entered: var err error; attempt := 1
RetryCall ==
    /\ rPc = "idle"
    /\ \E m \in 0..MaxAttemptsBound, cb \in BOOLEAN :
          /\ maxAttempts' = m
          /\ hasOnRetry' = cb
    /\ attempt' = 1
    /\ err' = NilErr
    /\ rPc' = "for"
    /\ UNCHANGED <<rRet, rLog>>
    /\ UNCHANGED notRetry

\* RetryLoopCond with the loop bound off by one (attempt < maxAttempts)
RetryLoopCond_OffByOne ==
    /\ rPc = "for"
    /\ rPc' = IF attempt < maxAttempts THEN "fn" ELSE "fail"
    /\ UNCHANGED <<maxAttempts, hasOnRetry, attempt, err, rRet, rLog>>
    /\ UNCHANGED notRetry

\* for ...; attempt <= maxAttempts; ...
RetryLoopCond ==
    /\ rPc = "for"
    /\ rPc' = IF attempt <= maxAttempts THEN "fn" ELSE "fail"
    /\ UNCHANGED <<maxAttempts, hasOnRetry, attempt, err, rRet, rLog>>
    /\ UNCHANGED notRetry

\* the outcome of one call of fn: nil or a fresh error
FnOutcomes(k) == {NilErr, NewErr(k)}

\* RetryFn without the early return on success
RetryFn_NoReturn ==
    /\ rPc = "fn"
    /\ \E e \in FnOutcomes(Len(FnCalls) + 1) :
          /\ err' = e
          /\ rLog' = Append(rLog, [ev |-> "fn", attempt |-> attempt, err |-> e])
    /\ rPc' = "retry"
    /\ UNCHANGED <<maxAttempts, hasOnRetry, attempt, rRet>>
    /\ UNCHANGED notRetry

\* err = fn(); if err == nil { return nil }
RetryFn ==
    /\ rPc = "fn"
    /\ \E e \in FnOutcomes(Len(FnCalls) + 1) :
          /\ err' = e
          /\ rLog' = Append(rLog, [ev |-> "fn", attempt |-> attempt, err |-> e])
          /\ IF e = NilErr
                THEN rPc' = "done" /\ rRet' = NilRet
                ELSE rPc' = "retry" /\ rRet' = rRet
    /\ UNCHANGED <<maxAttempts, hasOnRetry, attempt>>
    /\ UNCHANGED notRetry

\* RetryOnRetry without the test attempt < maxAttempts
RetryOnRetry_Always ==
    /\ rPc = "retry"
    /\ rPc' = "sleep"
    /\ rLog' = IF hasOnRetry
                  THEN Append(rLog, [ev |-> "onRetry", attempt |-> attempt, err |-> err])
                  ELSE rLog
    /\ UNCHANGED <<maxAttempts, hasOnRetry, attempt, err, rRet>>
    /\ UNCHANGED notRetry

\* if attempt < maxAttempts { if onRetry != nil { onRetry(attempt, err) } ...
RetryOnRetry ==
    /\ rPc = "retry"
    /\ IF attempt < maxAttempts
          THEN /\ rPc' = "sleep"
               /\ rLog' = IF hasOnRetry
                             THEN Append(rLog, [ev |-> "onRetry", attempt |-> attempt, err |-> err])
                             ELSE rLog
          ELSE /\ rPc' = "inc"
               /\ rLog' = rLog
    /\ UNCHANGED <<maxAttempts, hasOnRetry, attempt, err, rRet>>
    /\ UNCHANGED notRetry

\* ... time.Sleep(delay) }
RetrySleep ==
    /\ rPc = "sleep"
    /\ rPc' = "inc"
    /\ UNCHANGED <<maxAttempts, hasOnRetry, attempt, err, rRet, rLog>>
    /\ UNCHANGED notRetry

\* for ...; ...; attempt++
RetryInc ==
    /\ rPc = "inc"
    /\ attempt' = attempt + 1
    /\ rPc' = "for"
    /\ UNCHANGED <<maxAttempts, hasOnRetry, err, rRet, rLog>>
    /\ UNCHANGED notRetry

\* return fmt.Errorf("failed after %d attempts: %w", maxAttempts, err)
RetryFail ==
    /\ rPc = "fail"
    /\ rRet' = WrapErr(maxAttempts, err)
    /\ rPc' = "done"
    /\ UNCHANGED <<maxAttempts, hasOnRetry, attempt, err, rLog>>
    /\ UNCHANGED notRetry

NextRetry ==
    \/ RetryCall
    \/ RetryLoopCond
    \/ RetryFn
    \/ RetryOnRetry
    \/ RetrySleep
    \/ RetryInc
    \/ RetryFail

(***************************************************************************)
(* Debounce                                                                *)
(***************************************************************************)

\* interval of the usage example, 300*time.Millisecond, in ticks of 100 ms
Interval == 3

\* Calls of the debounced function (the usage example makes three).
MaxDebounceCalls == 3
\* The clock stops here.
MaxTime == 10
\* A due timer runs its function at most this many ticks late.
TimerLate == 1

InitDebounce ==
    /\ dNow = 0
    /\ dTimer = 0
    /\ dTimers = <<>>
    /\ dRuns = <<>>

\* timer.Stop(): a timer that has not fired yet never will
StopTimer(ts, t) ==
    IF ts[t].state = "pending" THEN [ts EXCEPT ![t].state = "stopped"] ELSE ts

\* time.AfterFunc(interval, fn) at time now
NewTimer(now) == [created |-> now, deadline |-> now + Interval, state |-> "pending"]

\* DebounceCall without timer.Stop()
DebounceCall_NoStop ==
    /\ Len(dTimers) < MaxDebounceCalls
    /\ dTimers' = Append(dTimers, NewTimer(dNow))
    /\ dTimer' = Len(dTimers) + 1
    /\ UNCHANGED <<dNow, dRuns>>
    /\ UNCHANGED notDebounce

\* one call of the function Debounce returned:
\* if timer != nil { timer.Stop() }; timer = time.AfterFunc(interval, fn)
DebounceCall ==
    /\ Len(dTimers) < MaxDebounceCalls
    /\ dTimers' = Append(IF dTimer # 0 THEN StopTimer(dTimers, dTimer) ELSE dTimers,
                          NewTimer(dNow))
    /\ dTimer' = Len(dTimers) + 1
    /\ UNCHANGED <<dNow, dRuns>>
    /\ UNCHANGED notDebounce

\* the runtime runs fn for a timer that is due and was not stopped
TimerFire ==
    /\ \E t \in 1..Len(dTimers) :
          /\ dTimers[t].state = "pending"
          /\ dNow >= dTimers[t].deadline
          /\ dTimers' = [dTimers EXCEPT ![t].state = "fired"]
          /\ dRuns' = Append(dRuns, [timer |-> t, at |-> dNow])
    /\ UNCHANGED <<dNow, dTimer>>
    /\ UNCHANGED notDebounce

\* time passes; a due timer is not delayed beyond TimerLate
Tick ==
    /\ dNow < MaxTime
    /\ \A t \in 1..Len(dTimers) :
          dTimers[t].state = "pending" => dNow < dTimers[t].deadline + TimerLate
    /\ dNow' = dNow + 1
    /\ UNCHANGED <<dTimer, dTimers, dRuns>>
    /\ UNCHANGED notDebounce

NextDebounce ==
    \/ DebounceCall
    \/ TimerFire
    \/ Tick

(***************************************************************************)
(* fetchData                                                               *)
(***************************************************************************)

\* time.Sleep(1 * time.Second)
FetchDelay == 1

\* Calls of fetchData a caller makes one after the other (main makes two).
MaxFetchCalls == 3

\* urls a caller passes: empty, main's url, another one
Urls == {"", "https://api.example.com", "https://other.example.com"}

\* fmt.Sprintf("Data from %s", url)
DataFrom(url) == <<"Data from ", url>>
\* fmt.Errorf("URL cannot be empty")
UrlError == <<"URL cannot be empty", "">>

InitFetch ==
    /\ fPc = "idle"
    /\ fUrl = ""
    /\ fNow = 0
    /\ fCalls = <<>>
    /\ fLog = <<>>

\* the caller calls fetchData(url, onSuccess, onError)
FetchCall ==
    /\ fPc = "idle"
    /\ Len(fCalls) < MaxFetchCalls
    /\ \E u \in Urls :
          /\ fUrl' = u
          /\ fCalls' = Append(fCalls, [url |-> u, at |-> fNow])
    /\ fPc' = "sleep"
    /\ UNCHANGED <<fNow, fLog>>
    /\ UNCHANGED notFetch

\* time.Sleep(1 * time.Second)
FetchSleep ==
    /\ fPc = "sleep"
    /\ fNow' = fNow + FetchDelay
    /\ fPc' = "branch"
    /\ UNCHANGED <<fUrl, fCalls, fLog>>
    /\ UNCHANGED notFetch

FetchEvent(ev, arg) == [ev |-> ev, call |-> Len(fCalls), arg |-> arg, at |-> fNow]

\* FetchCallback without the return after onError
FetchCallback_FallThrough ==
    /\ fPc = "branch"
    /\ fLog' = IF fUrl = ""
                  THEN fLog \o <<FetchEvent("onError", UrlError),
                                  FetchEvent("onSuccess", DataFrom(fUrl))>>
                  ELSE Append(fLog, FetchEvent("onSuccess", DataFrom(fUrl)))
    /\ fPc' = "ret"
    /\ UNCHANGED <<fUrl, fNow, fCalls>>
    /\ UNCHANGED notFetch

\* if url == "" { onError(...); return }; data := ...; onSuccess(data)
FetchCallback ==
    /\ fPc = "branch"
    /\ fLog' = IF fUrl = ""
                  THEN Append(fLog, FetchEvent("onError", UrlError))
                  ELSE Append(fLog, FetchEvent("onSuccess", DataFrom(fUrl)))
    /\ fPc' = "ret"
    /\ UNCHANGED <<fUrl, fNow, fCalls>>
    /\ UNCHANGED notFetch

\* fetchData returns to its caller
FetchReturn ==
    /\ fPc = "ret"
    /\ fLog' = Append(fLog, FetchEvent("return", <<"", "">>))
    /\ fPc' = "idle"
    /\ UNCHANGED <<fUrl, fNow, fCalls>>
    /\ UNCHANGED notFetch

NextFetch ==
    \/ FetchCall
    \/ FetchSleep
    \/ FetchCallback
    \/ FetchReturn

(***************************************************************************)
(* Slices                                                                  *)
(* A slice is a header (backing array, offset, len, cap); the arrays live  *)
(* in sHeap.  append is the built-in of the Go toolchain (gc, Go 1.18 or   *)
(* later, 64-bit): it writes in place while len < cap and otherwise moves  *)
(* the elements to a new array whose capacity the runtime chooses.         *)
(***************************************************************************)

\* capacity below which the runtime doubles (the comment in slice/main.go
\* says 1024, the threshold of the toolchains before Go 1.18)
GrowThreshold == 256
\* bytes of an int
IntSize == 8
\* largest small allocation, and the page size larger ones are rounded to
MaxSmallSize == 32768
PageSize == 8192

\* allocation size classes of the runtime, in bytes
SizeClasses ==
    {8, 16, 24, 32, 48, 64, 80, 96, 112, 128, 144, 160, 176, 192, 208, 224,
     240, 256, 288, 320, 352, 384, 416, 448, 480, 512, 576, 640, 704, 768,
     896, 1024, 1152, 1280, 1408, 1536, 1792, 2048, 2304, 2688, 3072, 3200,
     3456, 4096, 4864, 5120, 5376, 6144, 6528, 6784, 6912, 8192, 9472, 9728,
     10240, 10880, 12288, 13568, 14336, 16384, 18432, 19072, 20480, 21760,
     24576, 27264, 28672, 32768}

\* bytes the allocator hands out for a request of n bytes
RoundUpSize(n) ==
    IF n = 0 THEN 0
    ELSE IF n <= MaxSmallSize
            THEN CHOOSE c \in SizeClasses :
                    c >= n /\ \A d \in SizeClasses : d >= n => c <= d
            ELSE ((n + PageSize - 1) \div PageSize) * PageSize

\* beyond the threshold: newcap += (newcap + 3*threshold) / 4 until it fits
RECURSIVE GrowLoop(_, _)
GrowLoop(c, newLen) ==
    IF c >= newLen THEN c
    ELSE GrowLoop(c + (c + 3 * GrowThreshold) \div 4, newLen)

\* the rule of the comment: double till 1024, then increase by 25%
GrowCap_Doc(oldCap, newLen) ==
    LET d == IF oldCap < 1024 THEN 2 * oldCap ELSE oldCap + oldCap \div 4
    IN  IF d < newLen THEN newLen ELSE d

\* capacity of the new backing array when append has to grow one of
\* capacity oldCap to hold newLen elements
GrowCap(oldCap, newLen) ==
    LET newcap == IF newLen > 2 * oldCap THEN newLen
                  ELSE IF oldCap < GrowThreshold THEN 2 * oldCap
                  ELSE GrowLoop(oldCap, newLen)
    IN  RoundUpSize(newcap * IntSize) \div IntSize

NilSlice == [arr |-> 0, off |-> 0, len |-> 0, cap |-> 0]

Zeros(n) == [i \in 1..n |-> 0]

\* the elements of slice s, as fmt.Println shows them
Elems(h, s) == [i \in 1..s.len |-> h[s.arr][s.off + i]]

\* the result of a statement: the heap and the slice it yields
Res(h, s) == [heap |-> h, slice |-> s]

\* make([]int, n) with cap = len, the mistake of the comment at line 73
MakeSlice_CapIsLen(h, n, c) ==
    Res(Append(h, Zeros(n)), [arr |-> Len(h) + 1, off |-> 0, len |-> n, cap |-> n])

\* make([]int, n, c)
MakeSlice(h, n, c) ==
    Res(Append(h, Zeros(c)), [arr |-> Len(h) + 1, off |-> 0, len |-> n, cap |-> c])

\* append that always moves the elements to a new array
AppendSlice_Copy(h, s, vals) ==
    LET newLen == s.len + Len(vals)
        newCap == GrowCap(s.cap, newLen)
    IN  Res(Append(h, Elems(h, s) \o vals \o Zeros(newCap - newLen)),
            [arr |-> Len(h) + 1, off |-> 0, len |-> newLen, cap |-> newCap])

\* append(s, vals...)
AppendSlice(h, s, vals) ==
    LET newLen == s.len + Len(vals) IN
    IF newLen <= s.cap
       THEN Res([h EXCEPT ![s.arr] =
                    [i \in DOMAIN @ |->
                        IF i > s.off + s.len /\ i <= s.off + newLen
                           THEN vals[i - s.off - s.len] ELSE @[i]]],
                [s EXCEPT !.len = newLen])
       ELSE LET newCap == GrowCap(s.cap, newLen) IN
            Res(Append(h, Elems(h, s) \o vals \o Zeros(newCap - newLen)),
                [arr |-> Len(h) + 1, off |-> 0, len |-> newLen, cap |-> newCap])

\* s[i] is in range: indexing is bounded by len
InRange(s, i) == 0 <= i /\ i < s.len

\* s[i] = v for an index in range
IndexWrite(h, s, i, v) == [h EXCEPT ![s.arr][s.off + i + 1] = v]

\* Values the statements are given: the literals of the programs.
Vals == {1, 2, 3, 4, 5, 10}
\* Largest len and cap passed to make (the program passes 3 and 5).
MaxMakeLen == 3
MaxMakeCap == 5
\* Most values one append is given (the program passes 1, 2, 3).
MaxAppendArgs == 3

InitSlice ==
    /\ sProg = "none"
    /\ sPc = "start"
    /\ sHeap = <<>>
    /\ sEnv = [x |-> NilSlice, y |-> NilSlice, s |-> NilSlice, a |-> NilSlice, p |-> NilSlice]
    /\ sTrace = <<>>
    /\ sOut = <<>>

\* ---- the aliasing example, slice/main.go lines 13-24 ----

\* var x []int
AliasVarX ==
    /\ sProg = "none"
    /\ sProg' = "alias"
    /\ sPc' = "L14"
    /\ sEnv' = [sEnv EXCEPT !.x = NilSlice]
    /\ UNCHANGED <<sHeap, sTrace, sOut>>
    /\ UNCHANGED notSlice

AliasNext(pc) ==
    CASE pc = "L14" -> "L15" [] pc = "L15" -> "L16" [] pc = "L16" -> "L19" [] pc = "L20" -> "L21"

\* x = append(x, v), lines 14, 15, 16 and 20
AliasAppendX ==
    /\ sProg = "alias"
    /\ sPc \in {"L14", "L15", "L16", "L20"}
    /\ \E v \in Vals :
          LET r == AppendSlice(sHeap, sEnv.x, <<v>>) IN
          /\ sHeap' = r.heap
          /\ sEnv' = [sEnv EXCEPT !.x = r.slice]
          /\ sTrace' = Append(sTrace, v)
    /\ sPc' = AliasNext(sPc)
    /\ UNCHANGED <<sProg, sOut>>
    /\ UNCHANGED notSlice

\* y := x
AliasCopy ==
    /\ sProg = "alias"
    /\ sPc = "L19"
    /\ sEnv' = [sEnv EXCEPT !.y = sEnv.x]
    /\ sPc' = "L20"
    /\ UNCHANGED <<sProg, sHeap, sTrace, sOut>>
    /\ UNCHANGED notSlice

\* y = append(y, v)
AliasAppendY ==
    /\ sProg = "alias"
    /\ sPc = "L21"
    /\ \E v \in Vals :
          LET r == AppendSlice(sHeap, sEnv.y, <<v>>) IN
          /\ sHeap' = r.heap
          /\ sEnv' = [sEnv EXCEPT !.y = r.slice]
          /\ sTrace' = Append(sTrace, v)
    /\ sPc' = "L22"
    /\ UNCHANGED <<sProg, sOut>>
    /\ UNCHANGED notSlice

\* x[0] = v
AliasWrite ==
    /\ sProg = "alias"
    /\ sPc = "L22"
    /\ \E v \in Vals :
          /\ sTrace' = Append(sTrace, v)
          /\ IF InRange(sEnv.x, 0)
                THEN sHeap' = IndexWrite(sHeap, sEnv.x, 0, v) /\ sPc' = "L23"
                ELSE sHeap' = sHeap /\ sPc' = "panic"
    /\ UNCHANGED <<sProg, sEnv, sOut>>
    /\ UNCHANGED notSlice

\* fmt.Println(x); fmt.Println(y)
AliasPrint ==
    /\ sProg = "alias"
    /\ sPc = "L23"
    /\ sOut' = <<Elems(sHeap, sEnv.x), Elems(sHeap, sEnv.y)>>
    /\ sPc' = "end"
    /\ UNCHANGED <<sProg, sHeap, sEnv, sTrace>>
    /\ UNCHANGED notSlice

\* ---- make with len and capacity, slice/main.go lines 68-76 ----

\* s := make([]int, n, c); make([]int, n) is make([]int, n, n)
MakeStmt ==
    /\ sProg = "none"
    /\ \E n \in 0..MaxMakeLen, c \in 0..MaxMakeCap :
          /\ n <= c
          /\ LET r == MakeSlice(sHeap, n, c) IN
             /\ sHeap' = r.heap
             /\ sEnv' = [sEnv EXCEPT !.s = r.slice]
          /\ sTrace' = <<n, c>>
    /\ sProg' = "make"
    /\ sPc' = "L74"
    /\ UNCHANGED sOut
    /\ UNCHANGED notSlice

\* MakeWrite with the index checked against cap instead of len
MakeWrite_BoundByCap ==
    /\ sProg = "make"
    /\ sPc \in {"L74", "L75"}
    /\ \E i \in 0..MaxMakeCap, v \in Vals :
          /\ sTrace' = sTrace \o <<i, v>>
          /\ IF 0 <= i /\ i < sEnv.s.cap
                THEN /\ sHeap' = IndexWrite(sHeap, sEnv.s, i, v)
                     /\ sPc' = IF sPc = "L74" THEN "L75" ELSE "L76"
                ELSE /\ sHeap' = sHeap
                     /\ sPc' = "panic"
    /\ UNCHANGED <<sProg, sEnv, sOut>>
    /\ UNCHANGED notSlice

\* s[i] = v, lines 74 and 75; out of range it panics
MakeWrite ==
    /\ sProg = "make"
    /\ sPc \in {"L74", "L75"}
    /\ \E i \in 0..MaxMakeCap, v \in Vals :
          /\ sTrace' = sTrace \o <<i, v>>
          /\ IF InRange(sEnv.s, i)
                THEN /\ sHeap' = IndexWrite(sHeap, sEnv.s, i, v)
                     /\ sPc' = IF sPc = "L74" THEN "L75" ELSE "L76"
                ELSE /\ sHeap' = sHeap
                     /\ sPc' = "panic"
    /\ UNCHANGED <<sProg, sEnv, sOut>>
    /\ UNCHANGED notSlice

\* fmt.Println("slice:", s, "len:", len(s), "cap:", cap(s))
MakePrint ==
    /\ sProg = "make"
    /\ sPc = "L76"
    /\ sOut' = <<Elems(sHeap, sEnv.s), <<sEnv.s.len, sEnv.s.cap>>>>
    /\ sPc' = "end"
    /\ UNCHANGED <<sProg, sHeap, sEnv, sTrace>>
    /\ UNCHANGED notSlice

\* ---- empty slice, lines 78-81: var s []int; s = append(s, 1, 2, 3) ----

SeqsOf(S, n) == UNION {[1..k -> S] : k \in 1..n}

NilAppend ==
    /\ sProg = "none"
    /\ \E vals \in SeqsOf(Vals, MaxAppendArgs) :
          LET r == AppendSlice(sHeap, NilSlice, vals) IN
          /\ sHeap' = r.heap
          /\ sEnv' = [sEnv EXCEPT !.s = r.slice]
          /\ sTrace' = vals
    /\ sProg' = "nilappend"
    /\ sPc' = "L81"
    /\ UNCHANGED sOut
    /\ UNCHANGED notSlice

\* fmt.Println(s)
NilAppendPrint ==
    /\ sProg = "nilappend"
    /\ sPc = "L81"
    /\ sOut' = <<Elems(sHeap, sEnv.s)>>
    /\ sPc' = "end"
    /\ UNCHANGED <<sProg, sHeap, sEnv, sTrace>>
    /\ UNCHANGED notSlice

\* ---- repeated appends to a nil slice, as lines 13-16 and 79-80 begin ----

\* Longest slice the repeated appends build.
MaxGrowLen == 1300

\* the garbage collector: s was the only reference, so the array append
\* moved the elements out of is freed and the array of s is the only one left
Collect(r) == Res(<<r.heap[r.slice.arr]>>, [r.slice EXCEPT !.arr = 1])

\* var s []int
GrowVarS ==
    /\ sProg = "none"
    /\ sProg' = "grow"
    /\ sPc' = "append"
    /\ sEnv' = [sEnv EXCEPT !.s = NilSlice]
    /\ UNCHANGED <<sHeap, sTrace, sOut>>
    /\ UNCHANGED notSlice

\* s = append(s, 1, ...) with n values
GrowAppend ==
    /\ sProg = "grow"
    /\ sPc = "append"
    /\ \E n \in 1..MaxAppendArgs :
          /\ sEnv.s.len + n <= MaxGrowLen
          /\ LET r == Collect(AppendSlice(sHeap, sEnv.s, [i \in 1..n |-> 1])) IN
             /\ sHeap' = r.heap
             /\ sEnv' = [sEnv EXCEPT !.s = r.slice]
    /\ UNCHANGED <<sProg, sPc, sTrace, sOut>>
    /\ UNCHANGED notSlice

NextGrow ==
    \/ GrowVarS
    \/ GrowAppend

\* ---- changeSlice, slice/main.go lines 5-9 and 27-38 ----

\* a slice expression that copies the elements lo..hi-1 to a new array
SliceExpr_Copy(h, s, lo, hi) ==
    Res(Append(h, [i \in 1..(s.cap - lo) |-> h[s.arr][s.off + lo + i]]),
        [arr |-> Len(h) + 1, off |-> 0, len |-> hi - lo, cap |-> s.cap - lo])

\* s[lo:hi] for 0 <= lo <= hi <= cap(s): the same array, from lo on
SliceExpr(h, s, lo, hi) ==
    Res(h, [arr |-> s.arr, off |-> s.off + lo, len |-> hi - lo, cap |-> s.cap - lo])

\* x := []int{1, 2, 3, 4, 5}
ChLiteral ==
    /\ sProg = "none"
    /\ sProg' = "change"
    /\ sPc' = "L29"
    /\ sHeap' = Append(sHeap, <<1, 2, 3, 4, 5>>)
    /\ sEnv' = [sEnv EXCEPT !.x = [arr |-> Len(sHeap) + 1, off |-> 0, len |-> 5, cap |-> 5]]
    /\ UNCHANGED <<sTrace, sOut>>
    /\ UNCHANGED notSlice

\* x = append(x, 6); x = append(x, 7)
ChAppendX ==
    /\ sProg = "change"
    /\ sPc \in {"L29", "L30"}
    /\ LET r == AppendSlice(sHeap, sEnv.x, <<IF sPc = "L29" THEN 6 ELSE 7>>) IN
          /\ sHeap' = r.heap
          /\ sEnv' = [sEnv EXCEPT !.x = r.slice]
    /\ sPc' = IF sPc = "L29" THEN "L30" ELSE "L32"
    /\ UNCHANGED <<sProg, sTrace, sOut>>
    /\ UNCHANGED notSlice

\* a := x[4:]
ChSliceA ==
    /\ sProg = "change"
    /\ sPc = "L32"
    /\ LET r == SliceExpr(sHeap, sEnv.x, 4, sEnv.x.len) IN
          /\ sHeap' = r.heap
          /\ sEnv' = [sEnv EXCEPT !.a = r.slice]
    /\ sPc' = "L34"
    /\ UNCHANGED <<sProg, sTrace, sOut>>
    /\ UNCHANGED notSlice

\* changeSlice(a) is called: the parameter p is a copy of the slice header a
ChCall ==
    /\ sProg = "change"
    /\ sPc = "L34"
    /\ sEnv' = [sEnv EXCEPT !.p = sEnv.a]
    /\ sPc' = "L6"
    /\ UNCHANGED <<sProg, sHeap, sTrace, sOut>>
    /\ UNCHANGED notSlice

\* p[0] = 10
ChWrite ==
    /\ sProg = "change"
    /\ sPc = "L6"
    /\ IF InRange(sEnv.p, 0)
          THEN sHeap' = IndexWrite(sHeap, sEnv.p, 0, 10) /\ sPc' = "L7"
          ELSE sHeap' = sHeap /\ sPc' = "panic"
    /\ UNCHANGED <<sProg, sEnv, sTrace, sOut>>
    /\ UNCHANGED notSlice

\* p = append(p, 11)
ChAppendP ==
    /\ sProg = "change"
    /\ sPc = "L7"
    /\ LET r == AppendSlice(sHeap, sEnv.p, <<11>>) IN
          /\ sHeap' = r.heap
          /\ sEnv' = [sEnv EXCEPT !.p = r.slice]
    /\ sPc' = "L8"
    /\ UNCHANGED <<sProg, sTrace, sOut>>
    /\ UNCHANGED notSlice

\* return p; y := changeSlice(a)
ChReturn ==
    /\ sProg = "change"
    /\ sPc = "L8"
    /\ sEnv' = [sEnv EXCEPT !.y = sEnv.p, !.p = NilSlice]
    /\ sPc' = "L36"
    /\ UNCHANGED <<sProg, sHeap, sTrace, sOut>>
    /\ UNCHANGED notSlice

\* fmt.Println(x); fmt.Println(y)
ChPrint ==
    /\ sProg = "change"
    /\ sPc = "L36"
    /\ sOut' = <<Elems(sHeap, sEnv.x), Elems(sHeap, sEnv.y)>>
    /\ sPc' = "L38"
    /\ UNCHANGED <<sProg, sHeap, sEnv, sTrace>>
    /\ UNCHANGED notSlice

\* fmt.Println(x[0:8]): panics when 8 > cap(x)
ChPrintReslice ==
    /\ sProg = "change"
    /\ sPc = "L38"
    /\ IF 8 <= sEnv.x.cap
          THEN /\ sOut' = Append(sOut, Elems(sHeap, SliceExpr(sHeap, sEnv.x, 0, 8).slice))
               /\ sPc' = "end"
          ELSE /\ sOut' = sOut
               /\ sPc' = "panic"
    /\ UNCHANGED <<sProg, sHeap, sEnv, sTrace>>
    /\ UNCHANGED notSlice

NextSlice ==
    \/ AliasVarX
    \/ AliasAppendX
    \/ AliasCopy
    \/ AliasAppendY
    \/ AliasWrite
    \/ AliasPrint
    \/ MakeStmt
    \/ MakeWrite
    \/ MakePrint
    \/ NilAppend
    \/ NilAppendPrint
    \/ ChLiteral
    \/ ChAppendX
    \/ ChSliceA
    \/ ChCall
    \/ ChWrite
    \/ ChAppendP
    \/ ChReturn
    \/ ChPrint
    \/ ChPrintReslice

(***************************************************************************)
(* createCounter                                                           *)
(***************************************************************************)

\* Counters created (main creates two) and calls of each (main makes three).
MaxCounters == 2
MaxCounterCalls == 3

\* start values: main's 0 and 100, and a negative one
Starts == {0, 100, -1}

InitCounter ==
    /\ cCount = <<>>
    /\ cStart = <<>>
    /\ cRets = <<>>

\* createCounter(start): count := start; return func() int {...}
CreateCounter ==
    /\ Len(cCount) < MaxCounters
    /\ \E start \in Starts :
          /\ cCount' = Append(cCount, start)
          /\ cStart' = Append(cStart, start)
    /\ cRets' = Append(cRets, <<>>)
    /\ UNCHANGED notCounter

\* CallCounter with every closure incrementing one shared variable
CallCounter_Shared ==
    /\ \E c \in 1..Len(cCount) :
          /\ Len(cRets[c]) < MaxCounterCalls
          /\ cCount' = [cCount EXCEPT ![1] = @ + 1]
          /\ cRets' = [cRets EXCEPT ![c] = Append(@, cCount[1] + 1)]
    /\ UNCHANGED cStart
    /\ UNCHANGED notCounter

\* one call of a counter: count++; return count
CallCounter ==
    /\ \E c \in 1..Len(cCount) :
          /\ Len(cRets[c]) < MaxCounterCalls
          /\ cCount' = [cCount EXCEPT ![c] = @ + 1]
          /\ cRets' = [cRets EXCEPT ![c] = Append(@, cCount[c] + 1)]
    /\ UNCHANGED cStart
    /\ UNCHANGED notCounter

NextCounter ==
    \/ CreateCounter
    \/ CallCounter

(***************************************************************************)
(* Pointers and structs                                                    *)
(* Every variable is a memory cell with an address; a pointer is a cell    *)
(* that holds an address; a User occupies three cells, one per field; the  *)
(* parameters of a call are cells pushed at the call and popped at return. *)
(***************************************************************************)

\* cell values: an int, a pointer (an address), or a string / float32 text
IntV(n) == [k |-> "int", n |-> n, s |-> ""]
PtrV(a) == [k |-> "ptr", n |-> a, s |-> ""]
TxtV(k, t) == [k |-> k, n |-> 0, s |-> t]

\* one executed statement: what it was, the instance and field it names, its value
Op(by, inst, f, v) == [by |-> by, inst |-> inst, f |-> f, v |-> v]

\* the int literals of the pointer examples
IntVals == {20, 40, 50, 100}
\* field values of the User literals
Names == {"Arman", "Nusrat"}
Ages == {28, 30, 31}

\* Writes through p after p := &x.
MaxPtrWrites == 2
\* Field assignments and updateAge calls after the two instances are made.
MaxFieldWrites == 2

MNames == {"x", "p", "num", "arg", "u1", "u2", "user", "newAge"}

\* type User struct { Name string; Age int; Salary float32 }: field offsets
FieldOff(f) == CASE f = "Name" -> 0 [] f = "Age" -> 1 [] f = "Salary" -> 2
FieldVals(f) ==
    CASE f = "Name" -> {TxtV("str", n) : n \in Names}
      [] f = "Age" -> {IntV(a) : a \in Ages}
      [] f = "Salary" -> {TxtV("float", "300.34"), TxtV("float", "0")}

\* the three fields of the instance held by variable inst
Instance(mem, env, inst) == SubSeq(mem, env[inst], env[inst] + 2)

InitMem ==
    /\ mProg = "none"
    /\ mPc = "start"
    /\ mMem = <<>>
    /\ mEnv = [v \in MNames |-> 0]
    /\ mTrace = <<>>

\* ---- basic pointer example ----

\* x := 20
PtrDeclX ==
    /\ mProg = "none"
    /\ \E v \in IntVals :
          /\ mMem' = Append(mMem, IntV(v))
          /\ mTrace' = <<Op("decl", "x", "", IntV(v))>>
    /\ mEnv' = [mEnv EXCEPT !["x"] = Len(mMem) + 1]
    /\ mProg' = "basic"
    /\ mPc' = "addr"
    /\ UNCHANGED notMem

\* p := &x taking the address of a copy of x
PtrAddrOf_Copy ==
    /\ mProg = "basic"
    /\ mPc = "addr"
    /\ mMem' = mMem \o <<mMem[mEnv["x"]], PtrV(Len(mMem) + 1)>>
    /\ mEnv' = [mEnv EXCEPT !["p"] = Len(mMem) + 2]
    /\ mPc' = "store"
    /\ UNCHANGED <<mProg, mTrace>>
    /\ UNCHANGED notMem

\* p := &x
PtrAddrOf ==
    /\ mProg = "basic"
    /\ mPc = "addr"
    /\ mMem' = Append(mMem, PtrV(mEnv["x"]))
    /\ mEnv' = [mEnv EXCEPT !["p"] = Len(mMem) + 1]
    /\ mPc' = "store"
    /\ UNCHANGED <<mProg, mTrace>>
    /\ UNCHANGED notMem

\* *p = 40
PtrStore ==
    /\ mProg = "basic"
    /\ mPc = "store"
    /\ Len(mTrace) <= MaxPtrWrites
    /\ \E v \in IntVals :
          /\ mMem' = [mMem EXCEPT ![mMem[mEnv["p"]].n] = IntV(v)]
          /\ mTrace' = Append(mTrace, Op("store", "p", "", IntV(v)))
    /\ UNCHANGED <<mProg, mPc, mEnv>>
    /\ UNCHANGED notMem

\* ---- changeValue with a value parameter and with a pointer parameter ----

\* num := 50, in the program whose changeValue takes x int or x *int
CvDeclNum ==
    /\ mProg = "none"
    /\ \E v \in IntVals :
          /\ mMem' = Append(mMem, IntV(v))
          /\ mTrace' = <<Op("decl", "num", "", IntV(v))>>
    /\ mEnv' = [mEnv EXCEPT !["num"] = Len(mMem) + 1]
    /\ mProg' \in {"byvalue", "byptr"}
    /\ mPc' = "call"
    /\ UNCHANGED notMem

\* changeValue(num) copies num into the parameter; changeValue(&num) passes
\* the address of num
CvCall ==
    /\ mProg \in {"byvalue", "byptr"}
    /\ mPc = "call"
    /\ mMem' = Append(mMem, IF mProg = "byvalue" THEN mMem[mEnv["num"]]
                                                 ELSE PtrV(mEnv["num"]))
    /\ mEnv' = [mEnv EXCEPT !["arg"] = Len(mMem) + 1]
    /\ mPc' = "body"
    /\ UNCHANGED <<mProg, mTrace>>
    /\ UNCHANGED notMem

\* the body of changeValue writing to the caller's variable in both programs
CvAssign_WritesCaller ==
    /\ mProg \in {"byvalue", "byptr"}
    /\ mPc = "body"
    /\ \E w \in IntVals :
          /\ mMem' = [mMem EXCEPT ![mEnv["num"]] = IntV(w)]
          /\ mTrace' = Append(mTrace, Op("assign", "arg", "", IntV(w)))
    /\ mPc' = "ret"
    /\ UNCHANGED <<mProg, mEnv>>
    /\ UNCHANGED notMem

\* x = 100 with x int; *x = 100 with x *int
CvAssign ==
    /\ mProg \in {"byvalue", "byptr"}
    /\ mPc = "body"
    /\ \E w \in IntVals :
          /\ mMem' = [mMem EXCEPT ![IF mProg = "byvalue" THEN mEnv["arg"]
                                                        ELSE mMem[mEnv["arg"]].n] = IntV(w)]
          /\ mTrace' = Append(mTrace, Op("assign", "arg", "", IntV(w)))
    /\ mPc' = "ret"
    /\ UNCHANGED <<mProg, mEnv>>
    /\ UNCHANGED notMem

\* changeValue returns: its parameter is popped; main goes on to print num
CvReturn ==
    /\ mProg \in {"byvalue", "byptr"}
    /\ mPc = "ret"
    /\ mMem' = SubSeq(mMem, 1, Len(mMem) - 1)
    /\ mEnv' = [mEnv EXCEPT !["arg"] = 0]
    /\ mPc' = "end"
    /\ UNCHANGED <<mProg, mTrace>>
    /\ UNCHANGED notMem

\* ---- two User instances, field assignments and updateAge ----

\* user1 := User{Name: ..., Age: ...}; user2 := User{Name: ..., Age: ...}
StDecl ==
    /\ mProg = "none"
    /\ \E n1 \in Names, n2 \in Names, a1 \in Ages, a2 \in Ages :
          /\ mMem' = mMem \o <<TxtV("str", n1), IntV(a1), TxtV("float", "300.34"),
                               TxtV("str", n2), IntV(a2), TxtV("float", "0")>>
          /\ mTrace' = <<Op("decl", "u1", "Age", IntV(a1)), Op("decl", "u2", "Age", IntV(a2))>>
    /\ mEnv' = [mEnv EXCEPT !["u1"] = Len(mMem) + 1, !["u2"] = Len(mMem) + 4]
    /\ mProg' = "structs"
    /\ mPc' = "main"
    /\ UNCHANGED notMem

\* a field assignment that writes the field of both instances
StAssign_Aliased ==
    /\ mProg = "structs"
    /\ mPc = "main"
    /\ Len(mTrace) < 2 + MaxFieldWrites
    /\ \E inst \in {"u1", "u2"}, f \in {"Name", "Age", "Salary"} :
          \E v \in FieldVals(f) :
             /\ mMem' = [mMem EXCEPT ![mEnv["u1"] + FieldOff(f)] = v,
                                     ![mEnv["u2"] + FieldOff(f)] = v]
             /\ mTrace' = Append(mTrace, Op("assign", inst, f, v))
    /\ UNCHANGED <<mProg, mPc, mEnv>>
    /\ UNCHANGED notMem

\* user1.Age = 31: inst.f = v
StAssign ==
    /\ mProg = "structs"
    /\ mPc = "main"
    /\ Len(mTrace) < 2 + MaxFieldWrites
    /\ \E inst \in {"u1", "u2"}, f \in {"Name", "Age", "Salary"} :
          \E v \in FieldVals(f) :
             /\ mMem' = [mMem EXCEPT ![mEnv[inst] + FieldOff(f)] = v]
             /\ mTrace' = Append(mTrace, Op("assign", inst, f, v))
    /\ UNCHANGED <<mProg, mPc, mEnv>>
    /\ UNCHANGED notMem

\* updateAge(inst, newAge) with the User passed by value: user points to a copy
UaCall_ByValue ==
    /\ mProg = "structs"
    /\ mPc = "main"
    /\ Len(mTrace) < 2 + MaxFieldWrites
    /\ \E inst \in {"u1", "u2"}, a \in Ages :
          /\ mMem' = mMem \o Instance(mMem, mEnv, inst)
                          \o <<PtrV(Len(mMem) + 1), IntV(a)>>
          /\ mTrace' = Append(mTrace, Op("updateAge", inst, "Age", IntV(a)))
    /\ mEnv' = [mEnv EXCEPT !["user"] = Len(mMem) + 4, !["newAge"] = Len(mMem) + 5]
    /\ mPc' = "ua_body"
    /\ UNCHANGED mProg
    /\ UNCHANGED notMem

\* updateAge(&inst, newAge): user holds the address of inst
UaCall ==
    /\ mProg = "structs"
    /\ mPc = "main"
    /\ Len(mTrace) < 2 + MaxFieldWrites
    /\ \E inst \in {"u1", "u2"}, a \in Ages :
          /\ mMem' = mMem \o <<PtrV(mEnv[inst]), IntV(a)>>
          /\ mTrace' = Append(mTrace, Op("updateAge", inst, "Age", IntV(a)))
    /\ mEnv' = [mEnv EXCEPT !["user"] = Len(mMem) + 1, !["newAge"] = Len(mMem) + 2]
    /\ mPc' = "ua_body"
    /\ UNCHANGED mProg
    /\ UNCHANGED notMem

\* user.Age = newAge
UaAssign ==
    /\ mProg = "structs"
    /\ mPc = "ua_body"
    /\ mMem' = [mMem EXCEPT ![mMem[mEnv["user"]].n + FieldOff("Age")] = mMem[mEnv["newAge"]]]
    /\ mPc' = "ua_ret"
    /\ UNCHANGED <<mProg, mEnv, mTrace>>
    /\ UNCHANGED notMem

\* updateAge returns: its parameters are popped
UaReturn ==
    /\ mProg = "structs"
    /\ mPc = "ua_ret"
    /\ mMem' = SubSeq(mMem, 1, mEnv["u2"] + 2)
    /\ mEnv' = [mEnv EXCEPT !["user"] = 0, !["newAge"] = 0]
    /\ mPc' = "main"
    /\ UNCHANGED <<mProg, mTrace>>
    /\ UNCHANGED notMem

NextMem ==
    \/ PtrDeclX
    \/ PtrAddrOf
    \/ PtrStore
    \/ CvDeclNum
    \/ CvCall
    \/ CvAssign
    \/ CvReturn
    \/ StDecl
    \/ StAssign
    \/ UaCall
    \/ UaAssign
    \/ UaReturn

(***************************************************************************)
(* Program start-up: package-level declarations, init, main                *)
(* The Go runtime initialises the package-level variables, then calls      *)
(* init, then calls main; a program cannot call init itself.               *)
(***************************************************************************)

\* values of const a (10 in the source, 12 in the shadowing comment)
ConstVals == {8, 9, 10, 11, 12}
\* values of var p (100 in the source)
VarVals == {0, 50, 100, 150, 200, 250}

InitBoot ==
    /\ bPc = "load"
    /\ bA = 0
    /\ bP = 0
    /\ bOut = <<>>

\* const a = 10; var p = 100
LoadPackage ==
    /\ bPc = "load"
    /\ bA' \in ConstVals
    /\ bP' \in VarVals
    /\ bPc' = "init"
    /\ UNCHANGED bOut
    /\ UNCHANGED notBoot

\* a runtime that goes to main without calling init
RunInit_Skipped ==
    /\ bPc = "init"
    /\ bPc' = "main"
    /\ UNCHANGED <<bA, bP, bOut>>
    /\ UNCHANGED notBoot

\* func init() { fmt.Println("I am init function") }, called by the runtime
RunInit ==
    /\ bPc = "init"
    /\ bOut' = Append(bOut, TxtV("str", "I am init function"))
    /\ bPc' = "main"
    /\ UNCHANGED <<bA, bP>>
    /\ UNCHANGED notBoot

\* main: call(), which runs add(5, 6) and add(p, a); add prints x + y
MainCall ==
    /\ bPc = "main"
    /\ bOut' = bOut \o <<IntV(5 + 6), IntV(bP + bA)>>
    /\ bPc' = "println"
    /\ UNCHANGED <<bA, bP>>
    /\ UNCHANGED notBoot

\* main: fmt.Println(a), then main returns
MainPrintln ==
    /\ bPc = "println"
    /\ bOut' = Append(bOut, IntV(bA))
    /\ bPc' = "exit"
    /\ UNCHANGED <<bA, bP>>
    /\ UNCHANGED notBoot

NextBoot ==
    \/ LoadPackage
    \/ RunInit
    \/ MainCall
    \/ MainPrintln

(***************************************************************************)
(* Middleware pattern                                                      *)
(* A handler built by wrapping baseHandler is the list of its wrappers;    *)
(* calling it runs each wrapper's closure up to its call of the wrapped    *)
(* handler, then baseHandler, then the rest of each closure on the way out.*)
(***************************************************************************)

\* Deepest wrapping of baseHandler (main wraps it twice).
MaxWrap == 3

\* arguments of handler(input); a string is the list of its parts
Inputs == {<<"test data">>, <<"">>, <<"x">>}

\* handlers main can build: every wrapping of baseHandler up to MaxWrap deep
Chains == UNION {[1..n -> {"log", "timing"}] : n \in 0..MaxWrap}

\* an output line or a run of baseHandler, with the text it was given
Ev(tag, arg) == [tag |-> tag, arg |-> arg]

InitMw ==
    /\ hChain = <<>>
    /\ hInput = <<>>
    /\ hDepth = 0
    /\ hPhase = "idle"
    /\ hLog = <<>>
    /\ hRet = <<>>

\* handler := loggingMiddleware(timingMiddleware(baseHandler)); handler("test data")
CallHandler ==
    /\ hPhase = "idle"
    /\ hChain' \in Chains
    /\ hInput' \in Inputs
    /\ hDepth' = 1
    /\ hPhase' = "down"
    /\ UNCHANGED <<hLog, hRet>>
    /\ UNCHANGED notMw

\* a wrapper's closure up to result := handler(input): logging prints
\* "[LOG] Processing: input", timing takes start := time.Now()
EnterMiddleware ==
    /\ hPhase = "down"
    /\ hDepth <= Len(hChain)
    /\ hLog' = IF hChain[hDepth] = "log"
               THEN Append(hLog, Ev("[LOG] Processing", hInput))
               ELSE hLog
    /\ hDepth' = hDepth + 1
    /\ UNCHANGED <<hChain, hInput, hPhase, hRet>>
    /\ UNCHANGED notMw

\* baseHandler: return "Processed: " + input
RunBase ==
    /\ hPhase = "down"
    /\ hDepth = Len(hChain) + 1
    /\ hRet' = <<"Processed: ">> \o hInput
    /\ hLog' = Append(hLog, Ev("base", hInput))
    /\ hDepth' = hDepth - 1
    /\ hPhase' = IF hDepth = 1 THEN "done" ELSE "up"
    /\ UNCHANGED <<hChain, hInput>>
    /\ UNCHANGED notMw

\* a wrapper that returns its own log line in place of the result
LeaveMiddleware_Overwrites ==
    /\ hPhase = "up"
    /\ hLog' = Append(hLog, Ev(IF hChain[hDepth] = "log" THEN "[LOG] Result"
                                                          ELSE "[TIMING] Took", hRet))
    /\ hRet' = <<"[LOG] Result: ">> \o hRet
    /\ hDepth' = hDepth - 1
    /\ hPhase' = IF hDepth = 1 THEN "done" ELSE "up"
    /\ UNCHANGED <<hChain, hInput>>
    /\ UNCHANGED notMw

\* the rest of a wrapper's closure: logging prints "[LOG] Result: result",
\* timing prints "[TIMING] Took: duration"; both return result
LeaveMiddleware ==
    /\ hPhase = "up"
    /\ hLog' = Append(hLog, IF hChain[hDepth] = "log"
                            THEN Ev("[LOG] Result", hRet)
                            ELSE Ev("[TIMING] Took", <<>>))
    /\ hDepth' = hDepth - 1
    /\ hPhase' = IF hDepth = 1 THEN "done" ELSE "up"
    /\ UNCHANGED <<hChain, hInput, hRet>>
    /\ UNCHANGED notMw

NextMw ==
    \/ CallHandler
    \/ EnterMiddleware
    \/ RunBase
    \/ LeaveMiddleware

(***************************************************************************)
(* compose and divide                                                      *)
(* A func(int) int value is the name of its function literal; a float64    *)
(* with a rational value is a fraction in lowest terms with a positive     *)
(* denominator, and n/0 stands for +Inf, -Inf (n = 1, -1) and NaN (n = 0). *)
(***************************************************************************)

\* Largest |x| passed to a composed function (main passes 5).
MaxX == 5
\* Largest |a| and |b| passed to divide (main passes 10 and 2).
MaxDiv == 10

\* the function literals of main
Funcs == {"addOne", "double"}

\* f(x) for a function literal f
Apply(f, x) == CASE f = "addOne" -> x + 1 [] f = "double" -> x * 2

RECURSIVE Gcd(_, _)
Gcd(a, b) == IF b = 0 THEN a ELSE Gcd(b, a % b)

\* a / b on float64 values a/1 and b/1
Quot(a, b) ==
    LET g == Gcd(IF a < 0 THEN -a ELSE a, IF b < 0 THEN -b ELSE b)
        s == IF b < 0 THEN -1 ELSE 1
    IN  IF g = 0 THEN [num |-> 0, den |-> 0]
        ELSE [num |-> s * (a \div g), den |-> s * (b \div g)]

InitFn ==
    /\ qPc = "idle"
    /\ qF = ""
    /\ qG = ""
    /\ qX = 0
    /\ qY = 0
    /\ qA = 0
    /\ qB = 0
    /\ qResult = [num |-> 0, den |-> 1]
    /\ qErr = ""

\* doubleAndAddOne := compose(addOne, double): the closure captures f and g
ComposeMake ==
    /\ qPc = "idle"
    /\ qF' \in Funcs
    /\ qG' \in Funcs
    /\ qPc' = "composed"
    /\ UNCHANGED <<qX, qY, qA, qB, qResult, qErr>>
    /\ UNCHANGED notFn

\* a closure that applies f first and g second
ComposeApply_Swapped ==
    /\ qPc = "composed"
    /\ \E x \in -MaxX..MaxX :
          /\ qX' = x
          /\ qY' = Apply(qG, Apply(qF, x))
    /\ qPc' = "done"
    /\ UNCHANGED <<qF, qG, qA, qB, qResult, qErr>>
    /\ UNCHANGED notFn

\* doubleAndAddOne(5): return f(g(x))
ComposeApply ==
    /\ qPc = "composed"
    /\ \E x \in -MaxX..MaxX :
          /\ qX' = x
          /\ qY' = Apply(qF, Apply(qG, x))
    /\ qPc' = "done"
    /\ UNCHANGED <<qF, qG, qA, qB, qResult, qErr>>
    /\ UNCHANGED notFn

\* result, err := divide(10, 2): the call
DivideCall ==
    /\ qPc = "idle"
    /\ qA' \in -MaxDiv..MaxDiv
    /\ qB' \in -MaxDiv..MaxDiv
    /\ qPc' = "divide"
    /\ UNCHANGED <<qF, qG, qX, qY, qResult, qErr>>
    /\ UNCHANGED notFn

\* a divide without the test of b
DivideBody_Unchecked ==
    /\ qPc = "divide"
    /\ qResult' = Quot(qA, qB)
    /\ qErr' = ""
    /\ qPc' = "done"
    /\ UNCHANGED <<qF, qG, qX, qY, qA, qB>>
    /\ UNCHANGED notFn

\* if b == 0 { return 0, fmt.Errorf("division by zero") }; return a / b, nil
DivideBody ==
    /\ qPc = "divide"
    /\ IF qB = 0
       THEN /\ qResult' = [num |-> 0, den |-> 1]
            /\ qErr' = "division by zero"
       ELSE /\ qResult' = Quot(qA, qB)
            /\ qErr' = ""
    /\ qPc' = "done"
    /\ UNCHANGED <<qF, qG, qX, qY, qA, qB>>
    /\ UNCHANGED notFn

NextFn ==
    \/ ComposeMake
    \/ ComposeApply
    \/ DivideCall
    \/ DivideBody

(***************************************************************************)
(* Validation framework                                                    *)
(* A ValidationRule is the factory call that made it; a string is the list *)
(* of its characters; an error message is its format with its argument.    *)
(***************************************************************************)

\* Most rules added to one Validator (main adds 4 and 5).
MaxRules == 3
\* Longest input validated.
MaxInputLen == 2

\* characters of the inputs: a lower-case letter, an upper-case letter, '@'
Alphabet == {"a", "A", "@"}

\* MinLength(2), MaxLength(1), MustContain("@"), MatchPattern(`[A-Z]`)
RuleSet ==
    {[kind |-> "MinLength", n |-> 2, ch |-> ""],
     [kind |-> "MaxLength", n |-> 1, ch |-> ""],
     [kind |-> "MustContain", n |-> 0, ch |-> "@"],
     [kind |-> "MatchPattern", n |-> 0, ch |-> "[A-Z]"]}

\* the bool a rule returns for s
RuleOk(r, s) ==
    CASE r.kind = "MinLength" -> ~(Len(s) < r.n)
      [] r.kind = "MaxLength" -> ~(Len(s) > r.n)
      [] r.kind = "MustContain" -> \E i \in DOMAIN s : s[i] = r.ch
      [] r.kind = "MatchPattern" -> \E i \in DOMAIN s : s[i] = "A"

\* the message a rule returns when it fails
RuleMsg(r) ==
    CASE r.kind = "MinLength" -> [fmt |-> "must be at least %d characters", n |-> r.n, ch |-> ""]
      [] r.kind = "MaxLength" -> [fmt |-> "must be at most %d characters", n |-> r.n, ch |-> ""]
      [] r.kind = "MustContain" -> [fmt |-> "must contain '%s'", n |-> 0, ch |-> r.ch]
      [] r.kind = "MatchPattern" -> [fmt |-> "must match pattern: %s", n |-> 0, ch |-> r.ch]

\* NewValidator(): rules is empty
InitVal ==
    /\ vPc = "build"
    /\ vRules = <<>>
    /\ vInput = <<>>
    /\ vI = 0
    /\ vSeen = <<>>
    /\ vErrors = <<>>
    /\ vValid = FALSE

\* v.rules = append(v.rules, rule); return v
AddRule ==
    /\ vPc = "build"
    /\ Len(vRules) < MaxRules
    /\ \E r \in RuleSet : vRules' = Append(vRules, r)
    /\ UNCHANGED <<vPc, vInput, vI, vSeen, vErrors, vValid>>
    /\ UNCHANGED notVal

\* valid, errors := v.Validate(input): var errors []string, the loop starts
ValidateCall ==
    /\ vPc \in {"build", "done"}
    /\ vInput' \in UNION {[1..n -> Alphabet] : n \in 0..MaxInputLen}
    /\ vI' = 1
    /\ vSeen' = <<>>
    /\ vErrors' = <<>>
    /\ vPc' = "loop"
    /\ UNCHANGED <<vRules, vValid>>
    /\ UNCHANGED notVal

\* a loop that ends at the first rule that fails
ValidateRule_StopsAtFirst ==
    /\ vPc = "loop"
    /\ vI <= Len(vRules)
    /\ vSeen' = Append(vSeen, vI)
    /\ IF RuleOk(vRules[vI], vInput)
       THEN /\ vErrors' = vErrors
            /\ vI' = vI + 1
       ELSE /\ vErrors' = Append(vErrors, RuleMsg(vRules[vI]))
            /\ vI' = Len(vRules) + 1
    /\ UNCHANGED <<vPc, vRules, vInput, vValid>>
    /\ UNCHANGED notVal

\* one round of the loop: if valid, errMsg := rule(input); !valid
\* { errors = append(errors, errMsg) }
ValidateRule ==
    /\ vPc = "loop"
    /\ vI <= Len(vRules)
    /\ vSeen' = Append(vSeen, vI)
    /\ vErrors' = IF RuleOk(vRules[vI], vInput)
                  THEN vErrors
                  ELSE Append(vErrors, RuleMsg(vRules[vI]))
    /\ vI' = vI + 1
    /\ UNCHANGED <<vPc, vRules, vInput, vValid>>
    /\ UNCHANGED notVal

\* return len(errors) == 0, errors
ValidateReturn ==
    /\ vPc = "loop"
    /\ vI > Len(vRules)
    /\ vValid' = (Len(vErrors) = 0)
    /\ vPc' = "done"
    /\ UNCHANGED <<vRules, vInput, vI, vSeen, vErrors>>
    /\ UNCHANGED notVal

NextVal ==
    \/ AddRule
    \/ ValidateCall
    \/ ValidateRule
    \/ ValidateReturn

Init ==
    /\ InitRetry
    /\ InitDebounce
    /\ InitFetch
    /\ InitSlice
    /\ InitCounter
    /\ InitMem
    /\ InitBoot
    /\ InitMw
    /\ InitFn
    /\ InitVal

SpecRetry == Init /\ [][NextRetry]_vars
SpecDebounce == Init /\ [][NextDebounce]_vars
SpecFetch == Init /\ [][NextFetch]_vars
SpecSlice == Init /\ [][NextSlice]_vars
SpecGrow == Init /\ [][NextGrow]_vars
SpecCounter == Init /\ [][NextCounter]_vars
SpecMem == Init /\ [][NextMem]_vars
SpecBoot == Init /\ [][NextBoot]_vars
SpecMw == Init /\ [][NextMw]_vars
SpecFn == Init /\ [][NextFn]_vars
SpecVal == Init /\ [][NextVal]_vars

(***************************************************************************)
(* Properties of Retry                                                     *)
(***************************************************************************)

\* C1: Retry returns nil as soon as one call of fn returns nil and never
\* calls fn again after that success; fn is called at most maxAttempts times.
C1_RetryStopsOnSuccess ==
    /\ \A i \in 1..Len(rLog) :
          (rLog[i].ev = "fn" /\ rLog[i].err = NilErr) =>
             (i = Len(rLog) /\ rPc = "done" /\ rRet = NilRet)
    /\ Len(FnCalls) <= maxAttempts

\* Retry returned nil on the third call of fn, after two failures.
C1_Witness ==
    /\ rPc = "done"
    /\ rRet = NilRet
    /\ Len(FnCalls) = 3
    /\ maxAttempts = MaxAttemptsBound

AllAttemptsFailed ==
    /\ Len(FnCalls) = maxAttempts
    /\ \A i \in 1..Len(FnCalls) : FnCalls[i].err # NilErr

\* C2: for maxAttempts >= 1, Retry returns a non-nil error if and only if all
\* maxAttempts calls of fn returned an error; fn was then called exactly
\* maxAttempts times and the returned error wraps the last attempt's error.
C2_RetryFailsIffAllFail ==
    (rPc = "done" /\ maxAttempts >= 1) =>
       /\ (rRet.kind = "wrapped") <=> AllAttemptsFailed
       /\ rRet.kind # "wrapped" => rRet = NilRet
       /\ rRet.kind = "wrapped" =>
             /\ Len(FnCalls) = maxAttempts
             /\ rRet.cause = FnCalls[maxAttempts].err
             /\ rRet.cause = NewErr(maxAttempts)
             /\ rRet.attempts = maxAttempts

\* Retry gave up after five failed calls of fn.
C2_Witness ==
    /\ rPc = "done"
    /\ maxAttempts = MaxAttemptsBound
    /\ rRet = WrapErr(MaxAttemptsBound, NewErr(MaxAttemptsBound))

\* C3: with a non-nil onRetry, onRetry(k, err) is called once after each
\* failed attempt k < maxAttempts, with that attempt's error and before
\* attempt k+1 starts; it is never called after the final failed attempt nor
\* after a success, so on return after at least one call of fn the number of
\* onRetry calls is the number of fn calls minus one, numbered 1, 2, ...
C3_OnRetryBetweenAttempts ==
    hasOnRetry =>
       /\ \A i \in 1..Len(rLog) :
             /\ rLog[i].ev = "onRetry" =>
                   /\ i > 1
                   /\ rLog[i - 1] = [ev |-> "fn", attempt |-> rLog[i].attempt, err |-> rLog[i].err]
                   /\ rLog[i].err # NilErr
                   /\ rLog[i].attempt < maxAttempts
             /\ rLog[i].ev = "fn" =>
                   IF rLog[i].attempt = 1
                      THEN i = 1
                      ELSE /\ i > 1
                           /\ rLog[i - 1].ev = "onRetry"
                           /\ rLog[i - 1].attempt = rLog[i].attempt - 1
       /\ (rPc = "done" /\ Len(FnCalls) >= 1) =>
             /\ Len(OnRetryCalls) = Len(FnCalls) - 1
             /\ \A j \in 1..Len(OnRetryCalls) : OnRetryCalls[j].attempt = j
             /\ rLog[Len(rLog)].ev = "fn"

\* Retry with a callback returned after five failed attempts and four
\* onRetry calls.
C3_Witness ==
    /\ rPc = "done"
    /\ hasOnRetry
    /\ rRet.kind = "wrapped"
    /\ Len(FnCalls) = MaxAttemptsBound
    /\ Len(OnRetryCalls) = MaxAttemptsBound - 1


(***************************************************************************)
(* Properties of Debounce                                                  *)
(***************************************************************************)

\* every call so far came less than Interval after the call before it
RapidCalls ==
    \A i \in 1..(Len(dTimers) - 1) :
       dTimers[i + 1].created - dTimers[i].created < Interval

RunsOf(t) == SelectSeq(dRuns, LAMBDA r : r.timer = t)

\* C4: when the debounced function is called several times in a row, each
\* call less than interval after the previous one, fn is executed exactly
\* once, for the last call only and no earlier than interval after it; the
\* timers of the earlier calls never run fn.
C4_DebounceRunsLastOnly ==
    (RapidCalls /\ Len(dTimers) >= 1) =>
       LET last == Len(dTimers) IN
       /\ \A t \in 1..(last - 1) :
             dTimers[t].state = "stopped" /\ RunsOf(t) = <<>>
       /\ Len(dRuns) <= 1
       /\ \A r \in 1..Len(dRuns) :
             dRuns[r].timer = last /\ dRuns[r].at >= dTimers[last].created + Interval
       /\ dNow > dTimers[last].deadline + TimerLate => Len(dRuns) = 1

\* Three rapid calls at different times, and fn has run once.
C4_Witness ==
    /\ Len(dTimers) = 3
    /\ RapidCalls
    /\ dTimers[1].created < dTimers[2].created
    /\ dTimers[2].created < dTimers[3].created
    /\ dRuns = <<[timer |-> 3, at |-> dTimers[3].created + Interval]>>
(***************************************************************************)
(* Properties of fetchData                                                 *)
(***************************************************************************)

\* positions in fLog of the callbacks delivered for call n
CallbacksOf(n) ==
    {i \in 1..Len(fLog) : fLog[i].call = n /\ fLog[i].ev \in {"onError", "onSuccess"}}

Returned(n) == \E i \in 1..Len(fLog) : fLog[i].call = n /\ fLog[i].ev = "return"

\* C5: every call of fetchData invokes exactly one of the two callbacks
\* exactly once: onError iff url is empty, otherwise onSuccess with the data
\* for that url; the callback runs after the fixed delay and before
\* fetchData returns, so the callbacks of successive calls come in call order.
C5_FetchOneCallbackInOrder ==
    /\ \A n \in 1..Len(fCalls) :
          /\ Cardinality(CallbacksOf(n)) <= 1
          /\ Returned(n) => Cardinality(CallbacksOf(n)) = 1
          /\ \A i \in CallbacksOf(n) :
                /\ fLog[i].ev = "onError" <=> fCalls[n].url = ""
                /\ fLog[i].ev = "onError" => fLog[i].arg = UrlError
                /\ fLog[i].ev = "onSuccess" => fLog[i].arg = DataFrom(fCalls[n].url)
                /\ fLog[i].at = fCalls[n].at + FetchDelay
                /\ \A j \in 1..Len(fLog) :
                      (fLog[j].call = n /\ fLog[j].ev = "return") => i < j
    /\ \A i, j \in 1..Len(fLog) : i < j => fLog[i].call <= fLog[j].call

\* main's two calls have returned: success for the url, then the error for
\* the empty url.
C5_Witness ==
    /\ Len(fCalls) = 2
    /\ fCalls[1].url = "https://api.example.com"
    /\ fCalls[2].url = ""
    /\ Returned(2)
    /\ fLog[1].ev = "onSuccess"
    /\ fLog[3].ev = "onError"
(***************************************************************************)
(* Properties of the slice programs                                        *)
(***************************************************************************)

\* C6: from a nil slice x, after three appends to x, y := x, an append to
\* x, an append to y and a write to x[0], x and y share one backing array:
\* y's append overwrites the element x appended and the write to x[0] shows
\* through y; with the program's values 1, 2, 3, 4, 5, 10 both are [10 2 3 5].
C6_AliasSharedArray ==
    (sProg = "alias" /\ sPc = "end") =>
       LET x == Elems(sHeap, sEnv.x)
           y == Elems(sHeap, sEnv.y)
       IN  /\ sEnv.x.arr = sEnv.y.arr
           /\ x = <<sTrace[6], sTrace[2], sTrace[3], sTrace[5]>>
           /\ y = x
           /\ sOut = <<x, y>>
           /\ sTrace = <<1, 2, 3, 4, 5, 10>> =>
                 sOut = << <<10, 2, 3, 5>>, <<10, 2, 3, 5>> >>

\* The aliasing example ran with its own values and printed [10 2 3 5] twice.
C6_Witness ==
    /\ sProg = "alias"
    /\ sPc = "end"
    /\ sTrace = <<1, 2, 3, 4, 5, 10>>
    /\ sOut = << <<10, 2, 3, 5>>, <<10, 2, 3, 5>> >>

WrittenIndex(trace) == trace[Len(trace) - 1]

\* C9: a write s[i] = v with i >= len(s) is an index-out-of-range error even
\* when i < cap(s), as s[3] is for make([]int, 3, 5), and leaves the slice
\* unchanged; a write with i < len(s) does not fail.
C9_IndexBoundedByLen ==
    [][(sProg = "make" /\ sPc \in {"L74", "L75"} /\ sPc' # sPc) =>
          IF WrittenIndex(sTrace') >= sEnv.s.len
             THEN /\ sPc' = "panic"
                  /\ sHeap' = sHeap
                  /\ sEnv' = sEnv
             ELSE /\ sPc' # "panic"
                  /\ Elems(sHeap', sEnv.s')[WrittenIndex(sTrace') + 1]
                        = sTrace'[Len(sTrace')]]_vars

\* s := make([]int, 3, 5); s[0] = 5; s[3] = 3 panicked: index 3 is below
\* cap 5 but not below len 3, and the slice is still [5 0 0].
C9_Witness ==
    /\ sProg = "make"
    /\ sPc = "panic"
    /\ sTrace = <<3, 5, 0, 5, 3, 3>>
    /\ sEnv.s.cap = 5
    /\ Elems(sHeap, sEnv.s) = <<5, 0, 0>>
\* a step in which append moved s to a new backing array
Grew == sProg = "grow" /\ sEnv'.s.cap # sEnv.s.cap

C10_CounterCountsOwnCalls ==
    \A c \in 1..Len(cCount) :
       /\ \A n \in 1..Len(cRets[c]) : cRets[c][n] = cStart[c] + n
       /\ cCount[c] = cStart[c] + Len(cRets[c])

\* main's run: counter1 := createCounter(0) returned 1, 2, 3 and
\* counter2 := createCounter(100) returned 101, 102.
C10_Witness ==
    /\ cStart = <<0, 100>>
    /\ cRets = << <<1, 2, 3>>, <<101, 102>> >>

(***************************************************************************)
(* Pointers and structs                                                    *)
(***************************************************************************)

\* the value last given to a statement of the running program
LastOperand == mTrace[Len(mTrace)].v

\* C11: after p := &x, every write *p = v changes x itself: x and *p both read
\* v and p still holds the address of x; after changeValue(&num) has assigned
\* *x = w (100 in the example), num in the caller is w.
C11_WriteThroughPointer ==
    /\ (mProg = "basic" /\ mPc = "store" /\ Len(mTrace) >= 2) =>
          /\ mMem[mEnv["x"]] = LastOperand
          /\ mMem[mMem[mEnv["p"]].n] = LastOperand
          /\ mMem[mEnv["p"]] = PtrV(mEnv["x"])
    /\ (mProg = "byptr" /\ mPc \in {"ret", "end"}) =>
          mMem[mEnv["num"]] = LastOperand

\* x := 20; p := &x; *p = 40 has run and x reads 40
C11_Witness ==
    /\ mProg = "basic"
    /\ mTrace = <<Op("decl", "x", "", IntV(20)), Op("store", "p", "", IntV(40))>>
    /\ mMem[mEnv["x"]] = IntV(40)
    /\ mMem[mMem[mEnv["p"]].n] = IntV(40)

\* C12: changeValue(num) with a by-value int parameter leaves the caller's
\* num as it was declared: the assignment in the function changes the copy only.
C12_ByValueLeavesCaller ==
    (mProg = "byvalue" /\ mPc \in {"ret", "end"}) =>
        mMem[mEnv["num"]] = mTrace[1].v

\* num := 50; changeValue(num) assigned x = 100 and returned: num is still 50
C12_Witness ==
    /\ mProg = "byvalue"
    /\ mPc = "end"
    /\ mTrace = <<Op("decl", "num", "", IntV(50)), Op("assign", "arg", "", IntV(100))>>
    /\ mMem[mEnv["num"]] = IntV(50)

\* C13: the assignment in updateAge(&obj, newAge) sets the caller's obj.Age
\* to newAge and leaves obj.Name and obj.Salary as they were, and the return
\* changes no field of obj.
C13_UpdateAgeFrame ==
    [][(mProg = "structs" /\ mPc \in {"ua_body", "ua_ret"}) =>
          LET obj == mTrace[Len(mTrace)].inst
              was == Instance(mMem, mEnv, obj)
              now == Instance(mMem', mEnv', obj)
          IN  /\ now[1 + FieldOff("Age")] = LastOperand
              /\ now[1 + FieldOff("Name")] = was[1 + FieldOff("Name")]
              /\ now[1 + FieldOff("Salary")] = was[1 + FieldOff("Salary")]]_vars

\* obj := User{"Arman", 30, 300.34}; updateAge(&obj, 31) has returned: Age is 31
C13_Witness ==
    /\ mProg = "structs"
    /\ mPc = "main"
    /\ mTrace = <<Op("decl", "u1", "Age", IntV(30)), Op("decl", "u2", "Age", IntV(28)),
                  Op("updateAge", "u1", "Age", IntV(31))>>
    /\ Instance(mMem, mEnv, "u1") = <<TxtV("str", "Arman"), IntV(31), TxtV("float", "300.34")>>

\* C14: no step of a sequence of field assignments and updateAge calls changes
\* a field of an instance other than the one the step names.
C14_InstancesIndependent ==
    [][mProg = "structs" =>
          \A inst \in {"u1", "u2"} :
             mTrace'[Len(mTrace')].inst # inst =>
                 Instance(mMem', mEnv', inst) = Instance(mMem, mEnv, inst)]_vars

\* user1.Age = 31 was assigned (30 before) and user2.Age is still 28
C14_Witness ==
    /\ mProg = "structs"
    /\ mPc = "main"
    /\ mTrace = <<Op("decl", "u1", "Age", IntV(30)), Op("decl", "u2", "Age", IntV(28)),
                  Op("assign", "u1", "Age", IntV(31))>>
    /\ mMem[mEnv["u1"] + FieldOff("Age")] = IntV(31)
    /\ mMem[mEnv["u2"] + FieldOff("Age")] = IntV(28)
    /\ mMem[mEnv["u2"] + FieldOff("Name")] = TxtV("str", "Nusrat")

(***************************************************************************)
(* Program start-up                                                        *)
(***************************************************************************)

\* C15: init runs exactly once and completes before main starts: once main
\* has started, the first line printed is init's and no later line is; when
\* the program exits the output is "I am init function", 11, p + a, a
\* (11, 110, 10 with the source's a = 10 and p = 100), and before main starts
\* nothing of main has been printed.
C15_InitBeforeMain ==
    /\ bPc \in {"load", "init"} => bOut = <<>>
    /\ bPc \in {"main", "println", "exit"} =>
          /\ Len(bOut) >= 1
          /\ bOut[1] = TxtV("str", "I am init function")
          /\ \A i \in 2..Len(bOut) : bOut[i].k = "int"
    /\ bPc = "exit" =>
          bOut = <<TxtV("str", "I am init function"), IntV(11), IntV(bP + bA), IntV(bA)>>

\* the const/var program has finished with a = 10, p = 100
C15_Witness ==
    /\ bPc = "exit"
    /\ bA = 10
    /\ bP = 100
    /\ bOut = <<TxtV("str", "I am init function"), IntV(11), IntV(110), IntV(10)>>

(***************************************************************************)
(* Middleware pattern                                                      *)
(***************************************************************************)

\* C16: one call of loggingMiddleware(timingMiddleware(baseHandler)) produces
\* "[LOG] Processing", one run of baseHandler, "[TIMING] Took", "[LOG] Result"
\* in this order and returns baseHandler's result; under any wrapping
\* baseHandler runs exactly once and its result is returned unchanged.
C16_MiddlewareOrder ==
    hPhase = "done" =>
        /\ hRet = <<"Processed: ">> \o hInput
        /\ Len(SelectSeq(hLog, LAMBDA e : e.tag = "base")) = 1
        /\ hChain = <<"log", "timing">> =>
              hLog = <<Ev("[LOG] Processing", hInput), Ev("base", hInput),
                       Ev("[TIMING] Took", <<>>),
                       Ev("[LOG] Result", <<"Processed: ">> \o hInput)>>

\* handler("test data") of the source's handler has returned
C16_Witness ==
    /\ hPhase = "done"
    /\ hChain = <<"log", "timing">>
    /\ hInput = <<"test data">>
    /\ hRet = <<"Processed: ", "test data">>
    /\ Len(hLog) = 4

(***************************************************************************)
(* compose and divide                                                      *)
(***************************************************************************)

\* C17: the function compose(f, g) returns maps x to f(g(x)), g applied first:
\* compose(addOne, double)(x) is 2x + 1 and compose(double, addOne)(x) is
\* 2(x + 1), so compose(addOne, double)(5) is 11 and not 12.
C17_ComposeOrder ==
    (qPc = "done" /\ qF # "") =>
        /\ qY = Apply(qF, Apply(qG, qX))
        /\ (qF = "addOne" /\ qG = "double") => qY = 2 * qX + 1
        /\ (qF = "double" /\ qG = "addOne") => qY = 2 * (qX + 1)
        /\ (qF = "addOne" /\ qG = "double" /\ qX = 5) => (qY = 11 /\ qY # 12)

\* compose(addOne, double)(5) has returned 11
C17_Witness ==
    /\ qPc = "done"
    /\ qF = "addOne"
    /\ qG = "double"
    /\ qX = 5
    /\ qY = 11

\* C19: divide(a, b) returns result 0 with the error "division by zero" if
\* and only if b == 0; for b != 0 the error is nil and the result is a/b.
C19_DivideByZero ==
    (qPc = "done" /\ qF = "") =>
        /\ (qErr # "" /\ qResult = [num |-> 0, den |-> 1]) <=> qB = 0
        /\ qB = 0 => qErr = "division by zero"
        /\ qB # 0 =>
              /\ qErr = ""
              /\ qResult.den > 0
              /\ qResult.num * qB = qA * qResult.den

\* divide(10, 0) has returned 0 and the error
C19_Witness ==
    /\ qPc = "done"
    /\ qF = ""
    /\ qA = 10
    /\ qB = 0
    /\ qResult = [num |-> 0, den |-> 1]
    /\ qErr = "division by zero"

(***************************************************************************)
(* Validation framework                                                    *)
(***************************************************************************)

\* the positions of the rules that fail on the input, in rule order
FailingRules ==
    SelectSeq([i \in 1..Len(vRules) |-> i], LAMBDA i : ~RuleOk(vRules[i], vInput))

\* C18: Validate calls every added rule, in the order added, also after a
\* rule has failed; it returns valid = true if and only if no rule fails, and
\* its error list holds the message of each failing rule, once, in rule order.
C18_ValidateAllRules ==
    vPc = "done" =>
        /\ vSeen = [i \in 1..Len(vRules) |-> i]
        /\ vValid <=> (\A i \in 1..Len(vRules) : RuleOk(vRules[i], vInput))
        /\ vErrors = [j \in 1..Len(FailingRules) |-> RuleMsg(vRules[FailingRules[j]])]

\* a validator with MinLength(2), MustContain("@"), MatchPattern(`[A-Z]`) has
\* rejected "a" with the three messages: the loop went on after the first failure
C18_Witness ==
    /\ vPc = "done"
    /\ vInput = <<"a">>
    /\ Len(vRules) = 3
    /\ vSeen = <<1, 2, 3>>
    /\ ~vValid
    /\ vErrors = <<[fmt |-> "must be at least %d characters", n |-> 2, ch |-> ""],
                   [fmt |-> "must contain '%s'", n |-> 0, ch |-> "@"],
                   [fmt |-> "must match pattern: %s", n |-> 0, ch |-> "[A-Z]"]>>

(***************************************************************************)
(* changeSlice                                                             *)
(***************************************************************************)

\* C20: with x = [1 2 3 4 5 6 7] built by two appends to the 5-element
\* literal and a := x[4:], y := changeSlice(a) writes into x's backing array:
\* afterwards x is [1 2 3 4 10 6 7] with len 7, y is [10 6 7 11] in the same
\* array, and x[0:8] is [1 2 3 4 10 6 7 11]; the program does not panic.
C20_ChangeSliceWritesThrough ==
    sProg = "change" =>
        /\ sPc # "panic"
        /\ sPc = "L34" => Elems(sHeap, sEnv.x) = <<1, 2, 3, 4, 5, 6, 7>>
        /\ sPc \in {"L36", "L38", "end"} =>
              /\ Elems(sHeap, sEnv.x) = <<1, 2, 3, 4, 10, 6, 7>>
              /\ sEnv.x.len = 7
              /\ Elems(sHeap, sEnv.y) = <<10, 6, 7, 11>>
              /\ sEnv.y.arr = sEnv.x.arr
              /\ sHeap[sEnv.x.arr][sEnv.x.off + sEnv.x.len + 1] = 11
        /\ sPc = "end" =>
              sOut = << <<1, 2, 3, 4, 10, 6, 7>>, <<10, 6, 7, 11>>,
                        <<1, 2, 3, 4, 10, 6, 7, 11>> >>

\* the slice program has printed its three lines
C20_Witness ==
    /\ sProg = "change"
    /\ sPc = "end"
    /\ sEnv.x.cap = 10
    /\ sOut[3] = <<1, 2, 3, 4, 10, 6, 7, 11>>
====
